---- MODULE Spec2Model ----
(***************************************************************************)
(* Model of the shell plugin's sandboxed command executor:                 *)
(*   src/src/utils/pathUtils.ts       validatePath, isSafeCommand,         *)
(*                                    extractBaseCommand,                  *)
(*                                    isForbiddenCommand                   *)
(*   src/src/services/shellService.ts ShellService                         *)
(*   src/src/actions/clearHistory.ts  loadShellConfig (lines 490-603)      *)
(* Strings are TLA+ strings; a character is a string of length one.        *)
(* Paths follow the POSIX flavour of node's path module.                   *)
(***************************************************************************)
EXTENDS Integers, Sequences, FiniteSets, TLC

(***************************************************************************)
(* Bounds of the model.                                                    *)
(***************************************************************************)
MaxCalls == 2          \* executeCommand calls issued in one behaviour of Spec
MaxInFlight == 2       \* executeCommand calls suspended at the same time
MaxAppends == 110      \* executeCommand calls issued in one behaviour of SpecHist

(***************************************************************************)
(* JavaScript string primitives.                                           *)
(***************************************************************************)
Null == "<null>"
Undefined == "<undefined>"

charAt(s, i) == SubSeq(s, i, i)

\* String.prototype.startsWith
startsWith(s, p) == Len(p) <= Len(s) /\ SubSeq(s, 1, Len(p)) = p

\* String.prototype.includes
includes(s, p) == \E i \in 1..(Len(s) - Len(p) + 1) : SubSeq(s, i, i + Len(p) - 1) = p

\* the class \s of a regular expression, over the characters used here
isSpace(c) == c \in {" ", "\t", "\n"}

\* String.prototype.trim
trim(s) ==
  LET keep == {i \in 1..Len(s) : ~isSpace(charAt(s, i))}
      Min(S) == CHOOSE x \in S : \A y \in S : x <= y
      Max(S) == CHOOSE x \in S : \A y \in S : x >= y
  IN  IF keep = {} THEN "" ELSE SubSeq(s, Min(keep), Max(keep))

UpperCase == "ABCDEFGHIJKLMNOPQRSTUVWXYZ"
LowerCase == "abcdefghijklmnopqrstuvwxyz"

lowerChar(c) ==
  IF \E k \in 1..26 : charAt(UpperCase, k) = c
  THEN charAt(LowerCase, CHOOSE k \in 1..26 : charAt(UpperCase, k) = c)
  ELSE c

RECURSIVE toLowerCase(_)
\* String.prototype.toLowerCase
toLowerCase(s) ==
  IF s = "" THEN "" ELSE lowerChar(charAt(s, 1)) \o toLowerCase(SubSeq(s, 2, Len(s)))

RECURSIVE splitFrom(_, _, _, _)
splitFrom(s, i, cur, acc) ==
  IF i > Len(s) THEN Append(acc, cur)
  ELSE IF isSpace(charAt(s, i))
       THEN IF i < Len(s) /\ isSpace(charAt(s, i + 1))
            THEN splitFrom(s, i + 1, cur, acc)
            ELSE splitFrom(s, i + 1, "", Append(acc, cur))
       ELSE splitFrom(s, i + 1, cur \o charAt(s, i), acc)

\* s.split(/\s+/): the pieces between maximal runs of white space
splitSpaces(s) == splitFrom(s, 1, "", <<>>)

RECURSIVE joinWith(_, _)
\* Array.prototype.join
joinWith(parts, sep) ==
  IF Len(parts) = 0 THEN ""
  ELSE IF Len(parts) = 1 THEN parts[1]
  ELSE parts[1] \o sep \o joinWith(Tail(parts), sep)

\* the number of occurrences of the character c in s: (s.match(/c/g) || []).length
countChar(s, c) == Cardinality({i \in 1..Len(s) : charAt(s, i) = c})

\* the regular expression  a \s* w : the character a, white space, the word w
matchSpaced(s, a, w) ==
  \E i \in 1..Len(s) : \E j \in (i + 1)..(Len(s) + 1) :
     /\ charAt(s, i) = a
     /\ \A k \in (i + 1)..(j - 1) : isSpace(charAt(s, k))
     /\ j + Len(w) - 1 <= Len(s)
     /\ SubSeq(s, j, j + Len(w) - 1) = w

(***************************************************************************)
(* node's path module (POSIX): resolve, normalize, isAbsolute, join.       *)
(***************************************************************************)
RECURSIVE segmentsFrom(_, _, _, _)
segmentsFrom(s, i, cur, acc) ==
  IF i > Len(s) THEN Append(acc, cur)
  ELSE IF charAt(s, i) = "/"
       THEN segmentsFrom(s, i + 1, "", Append(acc, cur))
       ELSE segmentsFrom(s, i + 1, cur \o charAt(s, i), acc)

\* the pieces of a path between its slashes
segments(p) == segmentsFrom(p, 1, "", <<>>)

RECURSIVE collapse(_, _)
\* normalizeString of an absolute path: drop "" and ".", let ".." remove
\* the segment before it, and stay at the root when there is none
collapse(segs, acc) ==
  IF Len(segs) = 0 THEN acc
  ELSE LET h == Head(segs) IN
       IF h = "" \/ h = "." THEN collapse(Tail(segs), acc)
       ELSE IF h = ".."
            THEN collapse(Tail(segs), IF Len(acc) = 0 THEN acc ELSE SubSeq(acc, 1, Len(acc) - 1))
            ELSE collapse(Tail(segs), Append(acc, h))

pathOf(segs) == "/" \o joinWith(segs, "/")

isAbsolute(p) == startsWith(p, "/")

\* path.resolve(from, to) with from an absolute path
pathResolve(from, to) ==
  pathOf(collapse(segments(IF isAbsolute(to) THEN to ELSE from \o "/" \o to), <<>>))

\* path.normalize of an absolute path that has no trailing slash
pathNormalize(p) == pathOf(collapse(segments(p), <<>>))

\* path.join(a, b) with a an absolute path: normalize keeps a trailing slash
pathJoin(a, b) ==
  LET joined == a \o "/" \o b
      path == pathOf(collapse(segments(joined), <<>>))
  IN  IF path # "/" /\ charAt(joined, Len(joined)) = "/" THEN path \o "/" ELSE path

\* a is b or lies below b, judged on whole path segments
isWithin(a, b) ==
  LET sa == collapse(segments(a), <<>>)
      sb == collapse(segments(b), <<>>)
  IN  Len(sb) <= Len(sa) /\ SubSeq(sa, 1, Len(sb)) = sb

(***************************************************************************)
(* src/src/utils/pathUtils.ts                                              *)
(***************************************************************************)
\* validatePath accepting only what lies strictly below the allowed directory
validatePathStrict(commandPath, allowedDir, currentDir) ==
  LET normalizedPath == pathNormalize(pathResolve(currentDir, commandPath))
      normalizedAllowed == pathNormalize(allowedDir)
  IN  IF ~startsWith(normalizedPath, normalizedAllowed \o "/") THEN Null ELSE normalizedPath

\* validatePath without the containment test
validatePathAlways(commandPath, allowedDir, currentDir) ==
  pathNormalize(pathResolve(currentDir, commandPath))

\* validatePath handing back the candidate as it was given
validatePathUnresolved(commandPath, allowedDir, currentDir) ==
  LET normalizedPath == pathNormalize(pathResolve(currentDir, commandPath))
      normalizedAllowed == pathNormalize(allowedDir)
  IN  IF ~startsWith(normalizedPath, normalizedAllowed) THEN Null ELSE commandPath

\* the normalized absolute path, or Null when it does not start with the
\* allowed directory
validatePath(commandPath, allowedDir, currentDir) ==
  LET resolvedPath == pathResolve(currentDir, commandPath)
      normalizedPath == pathNormalize(resolvedPath)
      normalizedAllowed == pathNormalize(allowedDir)
  IN  IF ~startsWith(normalizedPath, normalizedAllowed) THEN Null ELSE normalizedPath

\* the backtick and the single quote.  A string literal that holds a
\* backtick has to hold a single quote after it, so the backtick is cut out
\* of such a literal.
Backtick == SubSeq("`'", 1, 1)
SingleQuote == SubSeq("`'", 2, 2)

\* /`[^']*`/ : two backticks with no single quote between them
matchBackticks(s) ==
  \E i \in 1..Len(s) : \E j \in (i + 1)..Len(s) :
     /\ charAt(s, i) = Backtick
     /\ charAt(s, j) = Backtick
     /\ \A k \in (i + 1)..(j - 1) : charAt(s, k) # SingleQuote

pathTraversalPatterns(command) ==
  \/ includes(command, "../")
  \/ includes(command, "..\\")
  \/ includes(command, "/..")
  \/ includes(command, "\\..")

\* dangerousPatterns without the two chaining patterns
dangerousPatternsNoChaining(command) ==
  \/ includes(command, "$(")
  \/ matchBackticks(command)
  \/ matchSpaced(command, "|", "sudo")
  \/ matchSpaced(command, ";", "sudo")

dangerousPatterns(command) ==
  \/ includes(command, "$(")
  \/ matchBackticks(command)
  \/ matchSpaced(command, "|", "sudo")
  \/ matchSpaced(command, ";", "sudo")
  \/ matchSpaced(command, "&", "&")
  \/ matchSpaced(command, "|", "|")

\* isSafeCommand without the limit on the number of pipes
isSafeCommandNoPipeLimit(command) ==
  /\ ~pathTraversalPatterns(command)
  /\ ~dangerousPatterns(command)

isSafeCommand(command) ==
  /\ ~pathTraversalPatterns(command)
  /\ ~dangerousPatterns(command)
  /\ ~(countChar(command, "|") > 1)

extractBaseCommand(fullCommand) == splitSpaces(trim(fullCommand))[1]

\* isForbiddenCommand comparing the command in the case it was written in
isForbiddenCommandCaseSensitive(command, forbiddenCommands) ==
  LET normalizedCommand == trim(command) IN
  \E k \in 1..Len(forbiddenCommands) :
     LET forbidden == forbiddenCommands[k]
         forbiddenLower == toLowerCase(forbidden)
     IN  \/ startsWith(normalizedCommand, forbiddenLower)
         \/ /\ ~includes(forbidden, " ")
            /\ extractBaseCommand(command) = forbiddenLower

isForbiddenCommand(command, forbiddenCommands) ==
  LET normalizedCommand == toLowerCase(trim(command)) IN
  \E k \in 1..Len(forbiddenCommands) :
     LET forbidden == forbiddenCommands[k]
         forbiddenLower == toLowerCase(forbidden)
     IN  \/ startsWith(normalizedCommand, forbiddenLower)
         \/ /\ ~includes(forbidden, " ")
            /\ toLowerCase(extractBaseCommand(command)) = forbiddenLower

(***************************************************************************)
(* The configuration: loadShellConfig, src/src/actions/clearHistory.ts.    *)
(***************************************************************************)
DEFAULT_FORBIDDEN_COMMANDS ==
  << "rm -rf /", "rmdir", "chmod 777", "chown", "chgrp", "shutdown", "reboot",
     "halt", "poweroff", "kill -9", "killall", "pkill", "sudo rm -rf", "su",
     "passwd", "useradd", "userdel", "groupadd", "groupdel", "format", "fdisk",
     "mkfs", "dd if=/dev/zero", "shred", ":(){:|:&};:" >>

\* SHELL_ALLOWED_DIRECTORY of the modelled deployment
AllowedDirectory == "/sandbox"

loadShellConfig(enabled) ==
  [ enabled |-> enabled,
    allowedDirectory |-> pathResolve("/", AllowedDirectory),
    forbiddenCommands |-> DEFAULT_FORBIDDEN_COMMANDS ]

maxHistoryPerConversation == 100

(***************************************************************************)
(* src/src/services/shellService.ts: the state of ShellService.            *)
(*   shellConfig       the configuration, read-only after construction     *)
(*   currentDirectory  the process-wide cursor                             *)
(*   commandHistory    Map conversationId -> entries; its DOMAIN is the    *)
(*                     set of keys of the Map                              *)
(*   calls             the executeCommand calls that are suspended at an   *)
(*                     await, one per slot                                 *)
(*   clock             the number of history entries created so far; it    *)
(*                     stands for Date.now() and orders the entries        *)
(*   callsMade         the number of executeCommand calls issued           *)
(*   step              what the last step did: the operation, its          *)
(*                     arguments, the result it returned to its caller     *)
(*                     and the process it spawned                          *)
(***************************************************************************)
VARIABLES shellConfig, currentDirectory, commandHistory, calls, clock, callsMade, step

vars == <<shellConfig, currentDirectory, commandHistory, calls, clock, callsMade, step>>

Sessions == {"s1", "s2"}

\* the command strings callers submit
Commands ==
  { "", "cd", "cd sub", "cd ..", "cd /sandbox-evil", "cd /etc", "ls ../x", "rmdir x",
    "cat /etc/passwd" }

\* the one command of the history-bound specification
HistCommands == { "cd /sandbox/sub" }

\* the commands of the specification of runCommand and detectFileOperations
RunCommands ==
  { "touch a.txt", "touch /tmp/a.txt", "touch", "TOUCH a.txt", "mkdir d", "mkdir /tmp/d",
    "cat a.txt", "cat a.txt > b.txt", "cat < in.txt", "mv a.txt b.txt", "mv a.txt",
    "cp a.txt /tmp/b.txt", "rm a.txt", "echo hi > out.txt", "echo hi >out.txt", "echo hi",
    "echo hi >>out.txt", "   ",
    "ls -la", "ls | wc", "  ls  ", "cd sub" }

\* the commands of the specification of the rejected patterns: traversal
\* and injection patterns at the start, in the middle and at the end of a
\* command, and commands without any of them
InjectionCommands ==
  { "cat ../x", "cat ..\\x", "cat /..", "cat x\\..", "echo $(id)", "ls && ls", "ls&&ls",
    "ls || ls", "ls | sudo ls", "ls |sudo ls", "ls ; sudo ls", "ls;sudo ls",
    "cd sub/..", "cd sub && ls", "cd sub ; sudo ls", "cd sub", "ls ; ls", "ls & ls",
    "ls | wc", "ls | rmdir x", "echo hi > x ; rmdir y",
    "echo " \o Backtick \o "id" \o Backtick,
    "echo " \o Backtick \o "cat " \o SingleQuote \o "x" \o SingleQuote \o Backtick \o " > out.txt" }

Slots == 1..MaxInFlight

NoResult == [none |-> TRUE]
NoSpawn == [none |-> TRUE]
\* the exception of spawn for an empty program name, in the place of a result
Thrown == [thrown |-> "ERR_INVALID_ARG_VALUE"]
\* detectFileOperations returns undefined exactly when it found no operation
NoOps == <<>>
\* the exit code null of a child that a signal ended
NoExitCode == -1

CommandResult(success, stdout, stderr, exitCode, error, executedIn) ==
  [ success |-> success, stdout |-> stdout, stderr |-> stderr,
    exitCode |-> exitCode, error |-> error, executedIn |-> executedIn ]

IdleCall ==
  [ pc |-> "idle", command |-> "", conversationId |-> Undefined, result |-> NoResult,
    timedOut |-> FALSE, killed |-> FALSE, graceTimer |-> FALSE, sigkill |-> FALSE,
    spawnCwd |-> "" ]

Step(op, command, conversationId, returned, spawned) ==
  [ op |-> op, command |-> command, conversationId |-> conversationId,
    returned |-> returned, spawned |-> spawned ]

\* handleCdCommand with the rejection moving the cursor back to the root
handleCdCommandReset(command, allowedDirectory, cur) ==
  LET parts == splitSpaces(command)
      targetPath == joinWith(Tail(parts), " ")
      validatedPath == validatePath(targetPath, allowedDirectory, cur)
      dir == IF Len(parts) < 2 \/ validatedPath = Null THEN allowedDirectory ELSE validatedPath
  IN  IF Len(parts) >= 2 /\ validatedPath = Null
      THEN [ currentDirectory |-> allowedDirectory,
             result |-> CommandResult(FALSE, "", "Cannot navigate outside allowed directory",
                                      1, "Permission denied", allowedDirectory) ]
      ELSE [ currentDirectory |-> dir,
             result |-> CommandResult(TRUE, "Changed directory to: " \o dir, "", 0, Undefined, dir) ]

\* handleCdCommand: the new cursor and the result
handleCdCommand(command, allowedDirectory, cur) ==
  LET parts == splitSpaces(command) IN
  IF Len(parts) < 2
  THEN [ currentDirectory |-> allowedDirectory,
         result |-> CommandResult(TRUE, "Changed directory to: " \o allowedDirectory, "",
                                  0, Undefined, allowedDirectory) ]
  ELSE LET targetPath == joinWith(Tail(parts), " ")
           validatedPath == validatePath(targetPath, allowedDirectory, cur)
       IN  IF validatedPath = Null
           THEN [ currentDirectory |-> cur,
                  result |-> CommandResult(FALSE, "", "Cannot navigate outside allowed directory",
                                           1, "Permission denied", cur) ]
           ELSE [ currentDirectory |-> validatedPath,
                  result |-> CommandResult(TRUE, "Changed directory to: " \o validatedPath, "",
                                           0, Undefined, validatedPath) ]

HistoryEntry(command, result, timestamp, fileOperations) ==
  [ command |-> command, stdout |-> result.stdout, stderr |-> result.stderr,
    exitCode |-> result.exitCode, timestamp |-> timestamp,
    workingDirectory |-> result.executedIn, fileOperations |-> fileOperations ]

\* addToHistory without the trimming of the oldest entry
addToHistoryNoTrim(history, conversationId, command, result, fileOperations, timestamp) ==
  IF conversationId = Undefined THEN history
  ELSE LET old == IF conversationId \in DOMAIN history THEN history[conversationId] ELSE <<>>
           pushed == Append(old, HistoryEntry(command, result, timestamp, fileOperations))
       IN  [k \in DOMAIN history \cup {conversationId} |->
              IF k = conversationId THEN pushed ELSE history[k]]

\* addToHistory appending the entry to every conversation of the Map
addToHistoryShared(history, conversationId, command, result, fileOperations, timestamp) ==
  IF conversationId = Undefined THEN history
  ELSE [k \in DOMAIN history \cup {conversationId} |->
          LET old == IF k \in DOMAIN history THEN history[k] ELSE <<>>
              pushed == Append(old, HistoryEntry(command, result, timestamp, fileOperations))
          IN  IF Len(pushed) > maxHistoryPerConversation THEN Tail(pushed) ELSE pushed]

\* addToHistory recording the calls without an identifier under one key
addToHistoryUndefinedKey(history, conversationId, command, result, fileOperations, timestamp) ==
  LET old == IF conversationId \in DOMAIN history THEN history[conversationId] ELSE <<>>
      pushed == Append(old, HistoryEntry(command, result, timestamp, fileOperations))
      kept == IF Len(pushed) > maxHistoryPerConversation THEN Tail(pushed) ELSE pushed
  IN  [k \in DOMAIN history \cup {conversationId} |->
         IF k = conversationId THEN kept ELSE history[k]]

\* addToHistory putting the new entry in front of the older ones
addToHistoryInFront(history, conversationId, command, result, fileOperations, timestamp) ==
  IF conversationId = Undefined THEN history
  ELSE LET old == IF conversationId \in DOMAIN history THEN history[conversationId] ELSE <<>>
           pushed == <<HistoryEntry(command, result, timestamp, fileOperations)>> \o old
           kept == IF Len(pushed) > maxHistoryPerConversation
                   THEN SubSeq(pushed, 1, maxHistoryPerConversation) ELSE pushed
       IN  [k \in DOMAIN history \cup {conversationId} |->
              IF k = conversationId THEN kept ELSE history[k]]

\* addToHistory: the Map after the call
addToHistory(history, conversationId, command, result, fileOperations, timestamp) ==
  IF conversationId = Undefined THEN history
  ELSE LET old == IF conversationId \in DOMAIN history THEN history[conversationId] ELSE <<>>
           pushed == Append(old, HistoryEntry(command, result, timestamp, fileOperations))
           kept == IF Len(pushed) > maxHistoryPerConversation THEN Tail(pushed) ELSE pushed
       IN  [k \in DOMAIN history \cup {conversationId} |->
              IF k = conversationId THEN kept ELSE history[k]]

\* Date.now() is read only when an entry is created
tick(conversationId) == IF conversationId = Undefined THEN clock ELSE clock + 1

(***************************************************************************)
(* detectFileOperations and resolvePath.                                   *)
(***************************************************************************)
\* resolvePath joining every path onto the directory, absolute ones too
resolvePathAlwaysJoin(filePath, cwd) == pathJoin(cwd, filePath)

resolvePath(filePath, cwd) == IF isAbsolute(filePath) THEN filePath ELSE pathJoin(cwd, filePath)

FileOperation(type, target, secondaryTarget) ==
  [ type |-> type, target |-> target, secondaryTarget |-> secondaryTarget ]

\* command.match(/>\s*([^\s]+)$/): the start of the captured group at the
\* leftmost '>' that is followed by white space and then by text without
\* white space up to the end of the string; 0 when there is no match
redirectMatch(command) ==
  LET n == Len(command)
      groupAt(i) == CHOOSE j \in (i + 1)..(n + 1) :
                       /\ \A k \in (i + 1)..(j - 1) : isSpace(charAt(command, k))
                       /\ j > n \/ ~isSpace(charAt(command, j))
      ok(i) == /\ charAt(command, i) = ">"
               /\ groupAt(i) <= n
               /\ \A k \in groupAt(i)..n : ~isSpace(charAt(command, k))
      hits == {i \in 1..n : ok(i)}
  IN  IF hits = {} THEN 0 ELSE groupAt(CHOOSE i \in hits : \A h \in hits : i <= h)

detectFileOperations(command, cwd) ==
  LET parts == splitSpaces(trim(command))
      cmd == toLowerCase(parts[1])
      m == redirectMatch(command)
  IN  IF cmd = "touch" /\ Len(parts) > 1
        THEN <<FileOperation("create", resolvePath(parts[2], cwd), Undefined)>>
      ELSE IF cmd = "echo" /\ includes(command, ">")
        THEN IF m # 0
             THEN <<FileOperation("write", resolvePath(SubSeq(command, m, Len(command)), cwd), Undefined)>>
             ELSE NoOps
      ELSE IF cmd = "mkdir" /\ Len(parts) > 1
        THEN <<FileOperation("mkdir", resolvePath(parts[2], cwd), Undefined)>>
      ELSE IF cmd = "cat" /\ Len(parts) > 1 /\ ~includes(command, ">")
        THEN <<FileOperation("read", resolvePath(parts[2], cwd), Undefined)>>
      ELSE IF cmd = "mv" /\ Len(parts) > 2
        THEN <<FileOperation("move", resolvePath(parts[2], cwd), resolvePath(parts[3], cwd))>>
      ELSE IF cmd = "cp" /\ Len(parts) > 2
        THEN <<FileOperation("copy", resolvePath(parts[2], cwd), resolvePath(parts[3], cwd))>>
      ELSE NoOps

(***************************************************************************)
(* runCommand: the process that is spawned.                                *)
(***************************************************************************)
\* useShell that looks for the pipe only
useShellPipeOnly(command) == includes(command, "|")

useShell(command) == includes(command, ">") \/ includes(command, "<") \/ includes(command, "|")

spawnOf(command, cwd) ==
  IF useShell(command)
  THEN [ cmd |-> "sh", args |-> <<"-c", command>>, cwd |-> cwd, command |-> command ]
  ELSE LET parts == splitSpaces(command)
       IN  [ cmd |-> parts[1], args |-> Tail(parts), cwd |-> cwd, command |-> command ]

\* exit codes of a child
ExitCodes == {0, 1, NoExitCode}

\* the codes a child can exit with: 0 or 1 while no signal was sent to it;
\* once SIGTERM was sent, null when the signal ends it and 0 when it ends
\* by itself
exitCodesOf(killed) == IF killed THEN {NoExitCode, 0} ELSE {0, 1}

freeSlot == CHOOSE i \in Slots : calls[i].pc = "idle" /\ \A j \in Slots : calls[j].pc = "idle" => i <= j

(***************************************************************************)
(* executeCommand, up to its first await.                                  *)
(***************************************************************************)
\* the checks of executeCommand on a command string: computed once for
\* each string the callers submit
checksOf(command) ==
  [ trimmedCommand |-> trim(command),
    safe |-> isSafeCommand(trim(command)),
    forbidden |-> isForbiddenCommand(trim(command), DEFAULT_FORBIDDEN_COMMANDS) ]

checks ==
  [command \in Commands \cup HistCommands \cup RunCommands \cup InjectionCommands |->
     checksOf(command)]

\* earlyReturn without the test of the enabled flag
earlyReturnEnabledIgnored(command, cfg, cur) ==
  IF command = ""
    THEN CommandResult(FALSE, "", "Invalid command", 1, "Command must be a non-empty string", cur)
  ELSE IF ~checks[command].safe
    THEN CommandResult(FALSE, "", "Command contains forbidden patterns", 1,
                       "Security policy violation", cur)
  ELSE IF checks[command].forbidden
    THEN CommandResult(FALSE, "", "Command is forbidden by security policy", 1,
                       "Forbidden command", cur)
  ELSE NoResult

\* the result of the checks that return before anything is run, NoResult
\* when the command passes them
earlyReturn(command, cfg, cur) ==
  IF ~cfg.enabled
    THEN CommandResult(FALSE, "", "Shell plugin is disabled. Set SHELL_ENABLED=true to enable.",
                       1, "Shell plugin disabled", cur)
  ELSE IF command = ""
    THEN CommandResult(FALSE, "", "Invalid command", 1, "Command must be a non-empty string", cur)
  ELSE IF ~checks[command].safe
    THEN CommandResult(FALSE, "", "Command contains forbidden patterns", 1,
                       "Security policy violation", cur)
  ELSE IF checks[command].forbidden
    THEN CommandResult(FALSE, "", "Command is forbidden by security policy", 1,
                       "Forbidden command", cur)
  ELSE NoResult

\* the test of a cd command as it would be with a bare cd and any white space
isCdCommandAnySpace(trimmedCommand) == splitSpaces(trimmedCommand)[1] = "cd"

\* trimmedCommand.startsWith('cd ')
isCdCommand(trimmedCommand) == startsWith(trimmedCommand, "cd ")

\* an early return that also records the rejected command
RejectRecorded(command, conversationId, result) ==
  /\ commandHistory' = addToHistory(commandHistory, conversationId, checks[command].trimmedCommand, result, Undefined, clock + 1)
  /\ clock' = tick(conversationId)
  /\ step' = Step("executeCommand", command, conversationId, result, NoSpawn)
  /\ UNCHANGED <<shellConfig, currentDirectory, calls>>

\* the early returns: the result goes back to the caller, nothing is recorded
Reject(command, conversationId, result) ==
  /\ step' = Step("executeCommand", command, conversationId, result, NoSpawn)
  /\ UNCHANGED <<shellConfig, currentDirectory, commandHistory, calls, clock>>

\* the cd branch: handleCdCommand runs to its end, the call then waits at
\* the await before it records
ChangeDirectory(command, conversationId) ==
  LET cd == handleCdCommand(checks[command].trimmedCommand, shellConfig.allowedDirectory, currentDirectory) IN
  /\ \E i \in Slots : calls[i].pc = "idle"
  /\ currentDirectory' = cd.currentDirectory
  /\ calls' = [calls EXCEPT ![freeSlot] =
                 [IdleCall EXCEPT !.pc = "cdAwait", !.command = checks[command].trimmedCommand,
                                  !.conversationId = conversationId, !.result = cd.result]]
  /\ step' = Step("executeCommand", command, conversationId, NoResult, NoSpawn)
  /\ UNCHANGED <<shellConfig, commandHistory, clock>>

\* runCommand starting every child in the allowed directory
SpawnInAllowedDirectory(command, conversationId) ==
  /\ \E i \in Slots : calls[i].pc = "idle"
  /\ calls' = [calls EXCEPT ![freeSlot] =
                 [IdleCall EXCEPT !.pc = "running", !.command = checks[command].trimmedCommand,
                                  !.conversationId = conversationId,
                                  !.spawnCwd = shellConfig.allowedDirectory]]
  /\ step' = Step("executeCommand", command, conversationId, NoResult,
                  spawnOf(checks[command].trimmedCommand, shellConfig.allowedDirectory))
  /\ UNCHANGED <<shellConfig, currentDirectory, commandHistory, clock>>

\* runCommand up to the spawn: the child starts in the cursor's directory.
\* spawn throws when the program name is empty; the exception rejects the
\* promise of runCommand and, with no handler in executeCommand, the call:
\* nothing is recorded.
Spawn(command, conversationId) ==
  LET spawned == spawnOf(checks[command].trimmedCommand, currentDirectory) IN
  IF spawned.cmd = ""
  THEN /\ step' = Step("executeCommand", command, conversationId, Thrown, spawned)
       /\ UNCHANGED <<shellConfig, currentDirectory, commandHistory, calls, clock>>
  ELSE /\ \E i \in Slots : calls[i].pc = "idle"
       /\ calls' = [calls EXCEPT ![freeSlot] =
                      [IdleCall EXCEPT !.pc = "running", !.command = checks[command].trimmedCommand,
                                       !.conversationId = conversationId,
                                       !.spawnCwd = currentDirectory]]
       /\ step' = Step("executeCommand", command, conversationId, NoResult, spawned)
       /\ UNCHANGED <<shellConfig, currentDirectory, commandHistory, clock>>

executeCommand(command, conversationId) ==
  /\ callsMade' = callsMade + 1
  /\ LET early == earlyReturn(command, shellConfig, currentDirectory) IN
     IF early # NoResult THEN Reject(command, conversationId, early)
     ELSE IF isCdCommand(checks[command].trimmedCommand) THEN ChangeDirectory(command, conversationId)
     ELSE Spawn(command, conversationId)

(***************************************************************************)
(* executeCommand after its awaits, and the events of a child process.     *)
(***************************************************************************)
\* the cd branch after the await: record and return
CdRecord(i) ==
  LET c == calls[i] IN
  /\ c.pc = "cdAwait"
  /\ commandHistory' = addToHistory(commandHistory, c.conversationId, c.command, c.result,
                                    NoOps, clock + 1)
  /\ clock' = tick(c.conversationId)
  /\ calls' = [calls EXCEPT ![i] = IdleCall]
  /\ step' = Step("cdRecord", c.command, c.conversationId, c.result, NoSpawn)
  /\ UNCHANGED <<shellConfig, currentDirectory, callsMade>>

\* Timer and child events are tasks of the event loop: none of them runs
\* while the continuation of an await (a microtask) is still queued.
noMicrotaskQueued == \A j \in Slots : calls[j].pc # "cdAwait"

\* the post-processing attaching the detected operations whatever the result
CompleteAlwaysAttach(i, op, result) ==
  LET c == calls[i]
      fileOps == detectFileOperations(c.command, currentDirectory)
      attached == IF fileOps # NoOps /\ c.conversationId # Undefined THEN fileOps ELSE NoOps
  IN
  /\ commandHistory' = addToHistory(commandHistory, c.conversationId, c.command, result,
                                    attached, clock + 1)
  /\ clock' = tick(c.conversationId)
  /\ calls' = [calls EXCEPT ![i] = IdleCall]
  /\ step' = Step(op, c.command, c.conversationId, result, NoSpawn)
  /\ UNCHANGED <<shellConfig, currentDirectory, callsMade>>

\* executeCommand after runCommand has resolved: file operations of a
\* successful command, the history entry, the return.  The continuation is
\* the only microtask queued by the handler that resolves the promise, so it
\* runs as part of the same step.
Complete(i, op, result) ==
  LET c == calls[i]
      fileOps == detectFileOperations(c.command, currentDirectory)
      attached == IF result.success /\ fileOps # NoOps /\ c.conversationId # Undefined
                  THEN fileOps ELSE NoOps
  IN
  /\ commandHistory' = addToHistory(commandHistory, c.conversationId, c.command, result,
                                    attached, clock + 1)
  /\ clock' = tick(c.conversationId)
  /\ calls' = [calls EXCEPT ![i] = IdleCall]
  /\ step' = Step(op, c.command, c.conversationId, result, NoSpawn)
  /\ UNCHANGED <<shellConfig, currentDirectory, callsMade>>

\* what the stderr handler has gathered when the child exits: nothing from
\* a child that exits with 0, a message from any other
childStderr(code) == IF code = 0 THEN "" ELSE "cat: error"

\* child.on('exit') that never looks at timedOut
ChildExitTimeoutUnchecked(i, code) ==
  LET c == calls[i] IN
  /\ noMicrotaskQueued
  /\ c.pc = "running"
  /\ code \in exitCodesOf(c.killed)
  /\ Complete(i, "childExit",
              CommandResult(code = 0, "", childStderr(code), code, Undefined, currentDirectory))

\* child.on('exit'): the timeout timer is cleared and the promise resolved.
\* The grace timer is not cleared by the code; when it fires after the exit
\* it finds child.killed set and does nothing, so it is dropped here.
ChildExit(i, code) ==
  LET c == calls[i]
      stderr == childStderr(code)
  IN
  /\ noMicrotaskQueued
  /\ c.pc = "running"
  /\ code \in exitCodesOf(c.killed)
  /\ Complete(i, "childExit",
              IF c.timedOut
              THEN CommandResult(FALSE, "", stderr \o "\nCommand timed out", code,
                                 "Command execution timeout", currentDirectory)
              ELSE CommandResult(code = 0, "", stderr, code, Undefined, currentDirectory))

\* err.message of the error event: the program that could not be started
spawnErrorMessage(command) == "spawn " \o spawnOf(command, "").cmd \o " ENOENT"

\* child.on('error') reporting the exit code null
ChildErrorNoExitCode(i) ==
  LET c == calls[i] IN
  /\ noMicrotaskQueued
  /\ c.pc = "running"
  /\ ~c.timedOut
  /\ Complete(i, "childError",
              CommandResult(FALSE, "", spawnErrorMessage(c.command), NoExitCode,
                            "Failed to execute command", currentDirectory))

\* child.on('error'): the process could not be started
ChildError(i) ==
  LET c == calls[i] IN
  /\ noMicrotaskQueued
  /\ c.pc = "running"
  /\ ~c.timedOut
  /\ Complete(i, "childError",
              CommandResult(FALSE, "", spawnErrorMessage(c.command), 1,
                            "Failed to execute command", currentDirectory))

\* child.on('exit') of a settled promise running the continuation once more
ChildExitSettledRecords ==
  /\ noMicrotaskQueued
  /\ step.op = "childError"
  /\ \E code \in {0, 1} :
        LET result == CommandResult(code = 0, "", childStderr(code), code, Undefined, currentDirectory) IN
        /\ commandHistory' = addToHistory(commandHistory, step.conversationId, step.command,
                                          result, NoOps, clock + 1)
        /\ step' = Step("childExitSettled", step.command, step.conversationId, NoResult, NoSpawn)
  /\ clock' = tick(step.conversationId)
  /\ UNCHANGED <<shellConfig, currentDirectory, calls, callsMade>>

\* child.on('exit') of a child whose error event has already resolved the
\* promise: clearTimeout of the cleared timer and resolve of the settled
\* promise change nothing, and no continuation is queued a second time.
\* The handler leaves the service as it is whenever it runs, so it is taken
\* right after the error event.
ChildExitSettled ==
  /\ noMicrotaskQueued
  /\ step.op = "childError"
  /\ step' = Step("childExitSettled", step.command, step.conversationId, NoResult, NoSpawn)
  /\ UNCHANGED <<shellConfig, currentDirectory, commandHistory, calls, clock, callsMade>>

\* the timeout timer fires: SIGTERM is sent and the grace timer is started
TimeoutFires(i) ==
  LET c == calls[i] IN
  /\ noMicrotaskQueued
  /\ c.pc = "running"
  /\ ~c.timedOut
  /\ calls' = [calls EXCEPT ![i].timedOut = TRUE, ![i].killed = TRUE, ![i].graceTimer = TRUE]
  /\ step' = Step("timeout", c.command, c.conversationId, NoResult, NoSpawn)
  /\ UNCHANGED <<shellConfig, currentDirectory, commandHistory, clock, callsMade>>

\* the grace timer fires: SIGKILL is sent unless child.killed is set
GraceFires(i) ==
  LET c == calls[i] IN
  /\ noMicrotaskQueued
  /\ c.pc = "running"
  /\ c.graceTimer
  /\ calls' = [calls EXCEPT ![i].graceTimer = FALSE,
                            ![i].sigkill = IF ~c.killed THEN TRUE ELSE c.sigkill]
  /\ step' = Step("graceTimeout", c.command, c.conversationId, NoResult, NoSpawn)
  /\ UNCHANGED <<shellConfig, currentDirectory, commandHistory, clock, callsMade>>

(***************************************************************************)
(* The history accessors.                                                  *)
(***************************************************************************)
\* the limit argument left out
NoLimit == -1

\* the limits callers pass to getCommandHistory
Limits == {NoLimit, 0, 1, 2}

\* Array.prototype.slice(-n) with n > 0: the last n elements, all of them
\* when there are fewer
sliceLast(seq, n) == IF n >= Len(seq) THEN seq ELSE SubSeq(seq, Len(seq) - n + 1, Len(seq))

\* getCommandHistory cutting the oldest entries out: history.slice(0, limit)
getCommandHistoryOldest(history, conversationId, limit) ==
  LET entries == IF conversationId \in DOMAIN history THEN history[conversationId] ELSE <<>>
  IN  IF limit # NoLimit /\ limit > 0
      THEN SubSeq(entries, 1, IF limit < Len(entries) THEN limit ELSE Len(entries))
      ELSE entries

\* getCommandHistory: the entries handed to the caller
getCommandHistory(history, conversationId, limit) ==
  LET entries == IF conversationId \in DOMAIN history THEN history[conversationId] ELSE <<>>
  IN  IF limit # NoLimit /\ limit > 0 THEN sliceLast(entries, limit) ELSE entries

\* the step of a history accessor: the entries it returned
HistoryStep(op, conversationId, limit, entries) ==
  [ op |-> op, command |-> "", conversationId |-> conversationId, returned |-> NoResult,
    spawned |-> NoSpawn, limit |-> limit, entries |-> entries ]

GetCommandHistory(conversationId, limit) ==
  /\ step' = HistoryStep("getCommandHistory", conversationId, limit,
                         getCommandHistory(commandHistory, conversationId, limit))
  /\ UNCHANGED <<shellConfig, currentDirectory, commandHistory, calls, clock, callsMade>>

\* clearCommandHistory emptying the whole Map
clearCommandHistoryAll(conversationId) ==
  /\ commandHistory' = <<>>
  /\ step' = HistoryStep("clearCommandHistory", conversationId, NoLimit, <<>>)
  /\ UNCHANGED <<shellConfig, currentDirectory, calls, clock, callsMade>>

\* clearCommandHistory that also puts the cursor back on the allowed directory
clearCommandHistoryResetCursor(conversationId) ==
  /\ commandHistory' = [k \in DOMAIN commandHistory \ {conversationId} |-> commandHistory[k]]
  /\ currentDirectory' = shellConfig.allowedDirectory
  /\ step' = HistoryStep("clearCommandHistory", conversationId, NoLimit, <<>>)
  /\ UNCHANGED <<shellConfig, calls, clock, callsMade>>

\* clearCommandHistory: Map.delete of the conversation's key
clearCommandHistory(conversationId) ==
  /\ commandHistory' = [k \in DOMAIN commandHistory \ {conversationId} |-> commandHistory[k]]
  /\ step' = HistoryStep("clearCommandHistory", conversationId, NoLimit, <<>>)
  /\ UNCHANGED <<shellConfig, currentDirectory, calls, clock, callsMade>>

\* getCurrentDirectory: one cursor, whatever the conversation
getCurrentDirectory(conversationId) == currentDirectory

\* getAllowedDirectory
getAllowedDirectory == shellConfig.allowedDirectory

\* the step of a directory accessor: the path it returned
DirectoryStep(op, conversationId, out) ==
  [ op |-> op, command |-> "", conversationId |-> conversationId, returned |-> NoResult,
    spawned |-> NoSpawn, out |-> out ]

\* a call of getCurrentDirectory
GetCurrentDirectory(conversationId) ==
  /\ step' = DirectoryStep("getCurrentDirectory", conversationId, getCurrentDirectory(conversationId))
  /\ UNCHANGED <<shellConfig, currentDirectory, commandHistory, calls, clock, callsMade>>

\* a call of getAllowedDirectory
GetAllowedDirectory ==
  /\ step' = DirectoryStep("getAllowedDirectory", Undefined, getAllowedDirectory)
  /\ UNCHANGED <<shellConfig, currentDirectory, commandHistory, calls, clock, callsMade>>

(***************************************************************************)
(* The service under concurrent callers.                                   *)
(***************************************************************************)
InitService(enabledValues) ==
  /\ \E enabled \in enabledValues : shellConfig = loadShellConfig(enabled)
  /\ currentDirectory = shellConfig.allowedDirectory
  /\ commandHistory = <<>>
  /\ calls = [i \in Slots |-> IdleCall]
  /\ clock = 0
  /\ callsMade = 0
  /\ step = Step("init", "", Undefined, NoResult, NoSpawn)

Init == InitService(BOOLEAN)

Next ==
  \/ \E command \in Commands : \E conversationId \in Sessions \cup {Undefined} :
        callsMade < MaxCalls /\ executeCommand(command, conversationId)
  \/ \E i \in Slots : CdRecord(i)
  \/ \E i \in Slots : \E code \in ExitCodes : ChildExit(i, code)
  \/ \E i \in Slots : ChildError(i)
  \/ \E i \in Slots : TimeoutFires(i)
  \/ \E i \in Slots : GraceFires(i)

Spec == Init /\ [][Next]_vars

\* What the event loop and the operating system guarantee: a queued
\* continuation runs, a timer that was started fires, and a child that was
\* sent SIGKILL exits.  A child that was sent nothing, or SIGTERM only, may
\* run for ever.
Fairness ==
  \A i \in Slots :
     /\ WF_vars(CdRecord(i))
     /\ WF_vars(TimeoutFires(i))
     /\ WF_vars(GraceFires(i))
     /\ WF_vars(calls[i].sigkill /\ \E code \in ExitCodes : ChildExit(i, code))

SpecFair == Init /\ [][Next]_vars /\ Fairness

(***************************************************************************)
(* The history bound: one conversation that changes directory again and    *)
(* again.                                                                  *)
(***************************************************************************)
InitHist == InitService({TRUE})

NextHist ==
  \/ \E command \in HistCommands :
        callsMade < MaxAppends /\ executeCommand(command, "s1")
  \/ \E i \in Slots : CdRecord(i)

SpecHist == InitHist /\ [][NextHist]_vars

(***************************************************************************)
(* validatePath on its own: candidate paths, allowed roots and cursors.    *)
(***************************************************************************)
PathCandidates ==
  { "sub", ".", "..", "../..", "../../../etc", "sub/../..", "../sandbox-evil",
    "/", "/etc", "/sandbox", "/sandbox/sub", "/sandbox-evil", "/sandbox/../etc",
    "/home/user/allowed/sub", "/home/user/allowed-evil/x" }

AllowedRoots == { "/sandbox", "/home/user/allowed", "/" }

CursorsOf(root) == { root, pathJoin(root, "sub"), pathJoin(root, "sub/deep") }

ValidatePathCall(commandPath, allowedDir, currentDir) ==
  /\ step' = [ op |-> "validatePath", commandPath |-> commandPath, allowedDir |-> allowedDir,
               currentDir |-> currentDir,
               out |-> validatePath(commandPath, allowedDir, currentDir) ]
  /\ UNCHANGED <<shellConfig, currentDirectory, commandHistory, calls, clock, callsMade>>

InitPath == InitService({TRUE})

NextPath ==
  \E commandPath \in PathCandidates : \E allowedDir \in AllowedRoots :
     \E currentDir \in CursorsOf(allowedDir) :
        ValidatePathCall(commandPath, allowedDir, currentDir)

SpecPath == InitPath /\ [][NextPath]_vars

(***************************************************************************)
(* The history accessors under concurrent callers: two sessions that       *)
(* change directory and run a command, read their history and clear it.    *)
(***************************************************************************)
HistoryOpsCommands == { "cd sub", "cat /etc/passwd" }

InitHistoryOps == InitService({TRUE})

NextHistoryOps ==
  \/ \E command \in HistoryOpsCommands : \E conversationId \in Sessions :
        callsMade < MaxCalls /\ executeCommand(command, conversationId)
  \/ \E i \in Slots : CdRecord(i)
  \/ \E i \in Slots : \E code \in ExitCodes : ChildExit(i, code)
  \/ \E i \in Slots : ChildError(i)
  \/ \E i \in Slots : TimeoutFires(i)
  \/ \E i \in Slots : GraceFires(i)
  \/ \E conversationId \in Sessions : \E limit \in Limits :
        GetCommandHistory(conversationId, limit)
  \/ \E conversationId \in Sessions : clearCommandHistory(conversationId)

SpecHistoryOps == InitHistoryOps /\ [][NextHistoryOps]_vars

(***************************************************************************)
(* isSafeCommand on its own: commands put together from a first command,   *)
(* a connective and a rest.                                                *)
(***************************************************************************)
SafeHeads == { "ls", "cat a.txt", "echo hi", "ls ../x" }

SafeJoins ==
  { " ", " | ", "|", " || ", " |  | ", " | sudo ", " ; sudo ", " ; ", " && ", " & ",
    " > ", " $(id) ", " " \o Backtick \o "id" \o Backtick \o " ", " /.. " }

SafeTails == { "wc", "grep t | wc -l", "b.txt" }

SafeInputs ==
  { head \o join \o tail : head \in SafeHeads, join \in SafeJoins, tail \in SafeTails }

IsSafeCommandCall(command) ==
  /\ step' = [ op |-> "isSafeCommand", command |-> command, out |-> isSafeCommand(command) ]
  /\ UNCHANGED <<shellConfig, currentDirectory, commandHistory, calls, clock, callsMade>>

InitSafe == InitService({TRUE})

NextSafe == \E command \in SafeInputs : IsSafeCommandCall(command)

SpecSafe == InitSafe /\ [][NextSafe]_vars

(***************************************************************************)
(* isForbiddenCommand on its own: commands against deny lists.             *)
(***************************************************************************)
ForbiddenInputs ==
  { "rm", "rm file.txt", "RM file.txt", " rm file.txt ", "rmdir x", "rm -rf /", "RM -RF /",
    "Rm -Rf /home", "rm  -rf /", "chmod 777 /etc", "CHMOD 777 x", "chmod 644 file",
    "chmod  777 x", "sudo rm -rf /home", "sudo apt update", "shutdown now", "SHUTDOWN",
    "su", "sum a.txt", "ls -la", "echo rm" }

DenyLists ==
  { <<"rm">>, <<"RM">>, <<"su">>, <<"shutdown">>, <<"rm -rf /">>, <<"chmod 777">>,
    <<"Chmod 777">>, <<"rm -rf /", "sudo rm -rf", "chmod 777">>,
    <<"rm -rf /", "sudo rm -rf", "chmod 777", "shutdown">> }

IsForbiddenCommandCall(command, forbiddenCommands) ==
  /\ step' = [ op |-> "isForbiddenCommand", command |-> command,
               forbiddenCommands |-> forbiddenCommands,
               out |-> isForbiddenCommand(command, forbiddenCommands) ]
  /\ UNCHANGED <<shellConfig, currentDirectory, commandHistory, calls, clock, callsMade>>

InitForbidden == InitService({TRUE})

NextForbidden ==
  \E command \in ForbiddenInputs : \E forbiddenCommands \in DenyLists :
     IsForbiddenCommandCall(command, forbiddenCommands)

SpecForbidden == InitForbidden /\ [][NextForbidden]_vars

(***************************************************************************)
(* runCommand and detectFileOperations at work: one session that runs      *)
(* commands with and without shell syntax and with file arguments, one     *)
(* after the other, from the allowed directory and from below it.          *)
(***************************************************************************)
InitRun == InitService({TRUE})

NextRun ==
  \/ \E command \in RunCommands :
        /\ callsMade < MaxCalls
        /\ \A i \in Slots : calls[i].pc = "idle"
        /\ executeCommand(command, "s1")
  \/ \E i \in Slots : CdRecord(i)
  \/ \E i \in Slots : \E code \in ExitCodes : ChildExit(i, code)

SpecRun == InitRun /\ [][NextRun]_vars

(***************************************************************************)
(* The cursor under every operation of the service: one session whose      *)
(* commands are rejected, change directory, fail to change directory and   *)
(* run, and the four accessors.                                            *)
(***************************************************************************)
CursorCommands == { "cd sub", "cd ..", "cd /etc", "ls ../x", "rmdir x", "cat /etc/passwd" }

InitCursor == InitService({TRUE})

NextCursor ==
  \/ \E command \in CursorCommands :
        callsMade < MaxCalls /\ executeCommand(command, "s1")
  \/ \E i \in Slots : CdRecord(i)
  \/ \E i \in Slots : \E code \in ExitCodes : ChildExit(i, code)
  \/ \E i \in Slots : ChildError(i)
  \/ \E i \in Slots : TimeoutFires(i)
  \/ \E i \in Slots : GraceFires(i)
  \/ \E limit \in {NoLimit, 1} : GetCommandHistory("s1", limit)
  \/ clearCommandHistory("s1")
  \/ GetCurrentDirectory("s1")
  \/ GetAllowedDirectory

SpecCursor == InitCursor /\ [][NextCursor]_vars

(***************************************************************************)
(* The safety classifier at work in executeCommand: one session that       *)
(* submits commands with and without the rejected patterns, one after the  *)
(* other.                                                                  *)
(***************************************************************************)
InitInjection == InitService({TRUE})

NextInjection ==
  \/ \E command \in InjectionCommands :
        /\ callsMade < MaxCalls
        /\ \A i \in Slots : calls[i].pc = "idle"
        /\ executeCommand(command, "s1")
  \/ \E i \in Slots : CdRecord(i)
  \/ \E i \in Slots : \E code \in ExitCodes : ChildExit(i, code)

SpecInjection == InitInjection /\ [][NextInjection]_vars

(***************************************************************************)
(* The events of a child: one session whose calls change directory, are    *)
(* rejected and run, and whose children emit exit, error, or error and     *)
(* then exit.                                                              *)
(***************************************************************************)
EventCommands == { "cd sub", "cd /etc", "rmdir x", "cat /etc/passwd" }

InitEvents == InitService({TRUE})

NextEvents ==
  \/ \E command \in EventCommands : \E conversationId \in {"s1", Undefined} :
        callsMade < MaxCalls /\ executeCommand(command, conversationId)
  \/ \E i \in Slots : CdRecord(i)
  \/ \E i \in Slots : \E code \in ExitCodes : ChildExit(i, code)
  \/ \E i \in Slots : ChildError(i)
  \/ ChildExitSettled
  \/ \E i \in Slots : TimeoutFires(i)
  \/ \E i \in Slots : GraceFires(i)

SpecEvents == InitEvents /\ [][NextEvents]_vars

(***************************************************************************)
(* Properties.                                                             *)
(***************************************************************************)
\* the steps that belong to an executeCommand call
ExecuteSteps ==
  {"executeCommand", "cdRecord", "childExit", "childError", "timeout", "graceTimeout"}

\* the target of a cd command: what follows the first word
cdTargetOf(trimmedCommand) == joinWith(Tail(splitSpaces(trimmedCommand)), " ")

\* some argument of the command is an absolute path outside the directory
carriesOutsidePath(command, allowedDir) ==
  LET parts == splitSpaces(trim(command)) IN
  \E k \in 2..Len(parts) : isAbsolute(parts[k]) /\ ~isWithin(parts[k], allowedDir)

\* cd alone, or cd followed by a white space character
isCdShape(trimmedCommand) ==
  \/ trimmedCommand = "cd"
  \/ /\ startsWith(trimmedCommand, "cd")
     /\ Len(trimmedCommand) >= 3
     /\ isSpace(charAt(trimmedCommand, 3))

\* C1: the cursor is the allowed directory or lies below it, judged on whole
\* path segments, in every reachable state.
C1_CursorWithinAllowed == isWithin(currentDirectory, shellConfig.allowedDirectory)

\* C2: validatePath returns null for every candidate whose normalized
\* resolution against the cursor is neither the allowed root nor below it by
\* whole path segments.
C2_OutsideRejected ==
  step.op = "validatePath" =>
    (~isWithin(pathResolve(step.currentDir, step.commandPath), step.allowedDir)
       => step.out = Null)

\* C3: a command that carries an absolute path argument outside the allowed
\* directory spawns no child process, and the result returned for it is a
\* failure.
C3_OutsideAbsoluteNotRun ==
  (step.op \in {"executeCommand", "cdRecord", "childExit", "childError"}
     /\ carriesOutsidePath(step.command, shellConfig.allowedDirectory))
  => /\ step.spawned = NoSpawn
     /\ step.returned # NoResult => ~step.returned.success

\* C4: when validatePath rejects the target of a cd command, the cursor is
\* left as it was and the result that executeCommand returns is the failure
\* with the error 'Permission denied'.
C4_RejectedCdKeepsCursor ==
  [][\A i \in Slots :
       /\ (/\ calls[i].pc = "idle"
           /\ calls'[i].pc = "cdAwait"
           /\ validatePath(cdTargetOf(calls'[i].command), shellConfig.allowedDirectory,
                           currentDirectory) = Null)
          => /\ currentDirectory' = currentDirectory
             /\ ~calls'[i].result.success
             /\ calls'[i].result.error = "Permission denied"
       /\ (calls[i].pc = "cdAwait" /\ calls'[i].pc = "idle")
          => step'.returned = calls[i].result]_vars

C4_Witness ==
  /\ step.op = "cdRecord"
  /\ step.command = "cd /etc"
  /\ step.returned.error = "Permission denied"
  /\ currentDirectory = pathJoin(shellConfig.allowedDirectory, "sub")

\* C5: with the cursor at the allowed root 'cd sub' succeeds and moves the
\* cursor to root/sub, and from there 'cd ..' succeeds and moves it back to
\* the allowed root.
C5_RoundTrip ==
  [][\A i \in Slots :
       (step'.op = "executeCommand" /\ calls[i].pc = "idle" /\ calls'[i].pc # "idle")
       => /\ (step'.command = "cd sub" /\ currentDirectory = shellConfig.allowedDirectory)
             => /\ currentDirectory' = pathJoin(shellConfig.allowedDirectory, "sub")
                /\ calls'[i].pc = "cdAwait"
                /\ calls'[i].result.success
          /\ (step'.command = "cd .."
                /\ currentDirectory = pathJoin(shellConfig.allowedDirectory, "sub"))
             => /\ currentDirectory' = shellConfig.allowedDirectory
                /\ calls'[i].pc = "cdAwait"
                /\ calls'[i].result.success]_vars

C5_Witness ==
  /\ step.op = "executeCommand"
  /\ step.command = "cd .."
  /\ currentDirectory = shellConfig.allowedDirectory
  /\ \E i \in Slots : /\ calls[i].pc = "cdAwait"
                      /\ calls[i].command = "cd .."
                      /\ calls[i].result.success

\* C6 as stated: 'cd ..' with the cursor at the allowed root leaves the
\* cursor unchanged and its result is a success.
C6_ParentAtRootSucceeds ==
  [][\A i \in Slots :
       (/\ step'.op = "executeCommand"
        /\ step'.command = "cd .."
        /\ currentDirectory = shellConfig.allowedDirectory
        /\ calls[i].pc = "idle"
        /\ calls'[i].pc # "idle")
       => /\ currentDirectory' = currentDirectory
          /\ calls'[i].result.success]_vars

\* C6 amended: 'cd ..' with the cursor at the allowed root (a root other
\* than '/') leaves the cursor unchanged and its result is the failure with
\* the error 'Permission denied'.
C6_ParentAtRootDenied ==
  [][\A i \in Slots :
       (/\ step'.op = "executeCommand"
        /\ step'.command = "cd .."
        /\ currentDirectory = shellConfig.allowedDirectory
        /\ shellConfig.allowedDirectory # "/"
        /\ calls[i].pc = "idle"
        /\ calls'[i].pc # "idle")
       => /\ currentDirectory' = currentDirectory
          /\ calls'[i].pc = "cdAwait"
          /\ ~calls'[i].result.success
          /\ calls'[i].result.error = "Permission denied"]_vars

C6_Witness ==
  /\ step.op = "executeCommand"
  /\ step.command = "cd .."
  /\ currentDirectory = shellConfig.allowedDirectory
  /\ \E i \in Slots : /\ calls[i].pc = "cdAwait"
                      /\ calls[i].command = "cd .."
                      /\ calls[i].result.error = "Permission denied"

\* C7: a command that passes the checks and, once trimmed, is 'cd' alone or
\* 'cd' followed by white space spawns no process; without an argument it
\* puts the cursor on the allowed root and its result is a success.
C7_BareCdHandled ==
  (/\ step.op = "executeCommand"
   /\ step.returned = NoResult
   /\ isCdShape(trim(step.command)))
  => /\ step.spawned = NoSpawn
     /\ trim(step.command) = "cd"
          => /\ currentDirectory = shellConfig.allowedDirectory
             /\ \E i \in Slots : calls[i].pc = "cdAwait" /\ calls[i].result.success

\* C8 as stated: a call with a session identifier that the safety
\* classifier or the forbidden check rejects appends one failed entry
\* without file operations to that session.
C8_RejectionRecorded ==
  [][(/\ step'.op = "executeCommand"
      /\ step'.returned # NoResult
      /\ step'.conversationId \in Sessions
      /\ step'.returned.error \in {"Security policy violation", "Forbidden command"})
     => LET s == step'.conversationId
            before == IF s \in DOMAIN commandHistory THEN commandHistory[s] ELSE <<>>
        IN  /\ s \in DOMAIN commandHistory'
            /\ Len(commandHistory'[s]) = Len(before) + 1
            /\ commandHistory'[s][Len(before) + 1].command = trim(step'.command)
            /\ commandHistory'[s][Len(before) + 1].fileOperations = NoOps]_vars

\* C8 amended: a call that the safety classifier or the forbidden check
\* rejects leaves the history of every session as it was, like the calls
\* rejected as disabled or as invalid input.
C8_RejectionNotRecorded ==
  [][(/\ step'.op = "executeCommand"
      /\ step'.returned # NoResult)
     => /\ step'.returned.error \in {"Shell plugin disabled", "Command must be a non-empty string",
                                     "Security policy violation", "Forbidden command"}
        /\ commandHistory' = commandHistory]_vars

C8_Witness ==
  /\ step.op = "executeCommand"
  /\ step.conversationId \in Sessions
  /\ step.returned # NoResult
  /\ step.returned.error = "Forbidden command"
  /\ \E s \in DOMAIN commandHistory : s = step.conversationId

\* C9: a history never holds more than 100 entries, and it holds the most
\* recent ones in the order they were created: after n entries of one
\* session the history is the entries n-99 .. n when n > 100, and 1 .. n
\* otherwise.
C9_HistoryBounded ==
  \A s \in DOMAIN commandHistory :
     LET h == commandHistory[s] IN
     /\ Len(h) <= 100
     /\ Len(h) = IF clock > 100 THEN 100 ELSE clock
     /\ \A k \in 1..Len(h) : h[k].timestamp = clock - Len(h) + k

C9_Witness ==
  /\ clock = 110
  /\ "s1" \in DOMAIN commandHistory
  /\ Len(commandHistory["s1"]) = 100
  /\ commandHistory["s1"][1].timestamp = 11
  /\ commandHistory["s1"][100].timestamp = 110

\* C10: a step of an executeCommand call made with session identifier A
\* leaves the history of every other session as it was.
C10_OtherSessionsUntouched ==
  [][step'.op \in ExecuteSteps
     => \A s \in DOMAIN commandHistory :
           s # step'.conversationId
           => s \in DOMAIN commandHistory' /\ commandHistory'[s] = commandHistory[s]]_vars

C10_Witness ==
  /\ step.op \in {"cdRecord", "childExit", "childError"}
  /\ step.conversationId = "s1"
  /\ DOMAIN commandHistory = {"s1", "s2"}
  /\ Len(commandHistory["s1"]) = 1
  /\ Len(commandHistory["s2"]) = 1

\* C11: clearCommandHistory(s) leaves the Map without the key s, so that
\* getCommandHistory(s) right after it returns the empty sequence for every
\* limit; it leaves the history of every other session and the cursor as
\* they were; and no other step takes a session with entries to a session
\* without entries.
C11_ClearRemovesOnlySession ==
  [][/\ step'.op = "clearCommandHistory"
        => /\ step'.conversationId \notin DOMAIN commandHistory'
           /\ \A limit \in Limits :
                 getCommandHistory(commandHistory', step'.conversationId, limit) = <<>>
           /\ \A s \in DOMAIN commandHistory :
                 s # step'.conversationId
                 => s \in DOMAIN commandHistory' /\ commandHistory'[s] = commandHistory[s]
           /\ currentDirectory' = currentDirectory
     /\ \A s \in DOMAIN commandHistory :
           (Len(commandHistory[s]) > 0
              /\ getCommandHistory(commandHistory', s, NoLimit) = <<>>)
           => step'.op = "clearCommandHistory" /\ step'.conversationId = s]_vars

C11_Witness ==
  /\ step.op = "getCommandHistory"
  /\ step.conversationId = "s1"
  /\ step.entries = <<>>
  /\ clock = 2
  /\ DOMAIN commandHistory = {"s2"}
  /\ Len(commandHistory["s2"]) = 1
  /\ currentDirectory = pathJoin(shellConfig.allowedDirectory, "sub")

\* C12: a child process is spawned only for a command that passed the
\* enabled check, the shape check, the safety classifier and the forbidden
\* check and that is not a cd command ('cd' alone or 'cd' followed by white
\* space); every other call completes without a spawn.
C12_SpawnOnlyAfterChecks ==
  (step.op = "executeCommand" /\ step.spawned # NoSpawn)
  => /\ shellConfig.enabled
     /\ step.command # ""
     /\ checks[step.command].safe
     /\ ~checks[step.command].forbidden
     /\ ~isCdShape(checks[step.command].trimmedCommand)

\* C13: while the plugin is not enabled every executeCommand call returns
\* at once the failure with the error 'Shell plugin disabled', spawns no
\* process and suspends no call, no session has a history and the cursor is
\* where the constructor put it.
C13_DisabledDoesNothing ==
  ~shellConfig.enabled
  => /\ step.op \in {"init", "executeCommand"}
     /\ step.op = "executeCommand"
          => /\ step.returned # NoResult
             /\ ~step.returned.success
             /\ step.returned.error = "Shell plugin disabled"
             /\ step.spawned = NoSpawn
     /\ \A i \in Slots : calls[i] = IdleCall
     /\ DOMAIN commandHistory = {}
     /\ currentDirectory = shellConfig.allowedDirectory

C13_Witness ==
  /\ ~shellConfig.enabled
  /\ callsMade = 2
  /\ step.op = "executeCommand"
  /\ step.command = "cd sub"
  /\ step.conversationId = "s1"
  /\ step.returned.error = "Shell plugin disabled"

\* C14: isSafeCommand is false for every command with two or more '|'
\* characters, and true for every command with exactly one '|' that has
\* none of the traversal patterns and none of the injection patterns.
C14_PipeLimit ==
  step.op = "isSafeCommand"
  => /\ countChar(step.command, "|") >= 2 => ~step.out
     /\ (/\ countChar(step.command, "|") = 1
         /\ ~pathTraversalPatterns(step.command)
         /\ ~dangerousPatterns(step.command))
        => step.out

C14_Witness ==
  /\ step.op = "isSafeCommand"
  /\ step.command = "ls | grep t | wc -l"
  /\ ~step.out

\* an entry of the deny list without white space
isBareEntry(entry) == \A k \in 1..Len(entry) : ~isSpace(charAt(entry, k))

\* the first white-space-delimited token of a command
firstToken(command) == splitSpaces(trim(command))[1]

\* C15: a bare deny-list entry forbids exactly the commands whose first
\* white-space-delimited token equals it, letter case apart: 'rm' forbids
\* 'rm file.txt' and does not forbid 'rmdir x'.
C15_BareEntryMatchesToken ==
  (/\ step.op = "isForbiddenCommand"
   /\ Len(step.forbiddenCommands) = 1
   /\ isBareEntry(step.forbiddenCommands[1]))
  => (step.out <=> toLowerCase(firstToken(step.command)) = toLowerCase(step.forbiddenCommands[1]))

\* C16: against deny-list entries of several words isForbiddenCommand is
\* true exactly for the commands whose lower-cased, trimmed text starts with
\* a lower-cased entry, whatever the letter case of the command, and so it
\* is false for a command that shares only the first word of an entry.
C16_MultiWordPrefix ==
  (/\ step.op = "isForbiddenCommand"
   /\ \A k \in 1..Len(step.forbiddenCommands) : ~isBareEntry(step.forbiddenCommands[k]))
  => /\ step.out <=> \E k \in 1..Len(step.forbiddenCommands) :
                        startsWith(toLowerCase(trim(step.command)),
                                   toLowerCase(step.forbiddenCommands[k]))
     /\ step.command \in {"chmod 644 file", "rm file.txt"} => ~step.out
     /\ (step.command = "RM -RF /" /\ step.forbiddenCommands = <<"rm -rf /">>) => step.out

C16_Witness ==
  /\ step.op = "isForbiddenCommand"
  /\ step.command = "CHMOD 777 x"
  /\ step.forbiddenCommands = <<"chmod 777">>
  /\ step.out

\* C17: a child that is still running when the timeout timer has fired was
\* sent SIGTERM at that moment, and a child that is still running when the
\* grace timer has fired, 5000 ms later, was sent SIGKILL.
C17_TimeoutEscalates ==
  \A i \in Slots :
     calls[i].pc = "running"
     => /\ calls[i].timedOut => calls[i].killed
        /\ (calls[i].timedOut /\ ~calls[i].graceTimer) => calls[i].sigkill

\* C18: every executeCommand call eventually returns: a call that is
\* suspended is eventually not suspended any more.
C18_EveryCallReturns ==
  \A i \in Slots : (calls[i].pc # "idle") ~> (calls[i].pc = "idle")

C20_SpawnFailureNoExitCode ==
  step.op = "childError"
  => /\ ~step.returned.success
     /\ step.returned.exitCode = NoExitCode
     /\ step.returned.error = "Failed to execute command"
     /\ step.returned.stderr = spawnErrorMessage(step.command)

\* C20 amended: the result of a spawn failure has success false, the exit
\* code 1, the error 'Failed to execute command' and the message of the
\* operating system's error as stderr.
C20_SpawnFailureExitCodeOne ==
  step.op = "childError"
  => /\ ~step.returned.success
     /\ step.returned.exitCode = 1
     /\ step.returned.error = "Failed to execute command"
     /\ step.returned.stdout = ""
     /\ step.returned.stderr = spawnErrorMessage(step.command)

C20_Witness ==
  /\ step.op = "childError"
  /\ step.command = "cat /etc/passwd"
  /\ step.returned.exitCode = 1
  /\ step.returned.stderr = "spawn cat ENOENT"
  /\ "s1" \in DOMAIN commandHistory
  /\ commandHistory["s1"][1].exitCode = 1

\* the text holds one of the characters '>', '<', '|'
hasShellSyntax(text) == \E k \in 1..Len(text) : charAt(text, k) \in {">", "<", "|"}

lastEntry == commandHistory[step.conversationId][Len(commandHistory[step.conversationId])]

\* a step that returned the result of a successful run to a call with a
\* session identifier
successfulRun ==
  /\ step.op = "childExit"
  /\ step.conversationId \in Sessions
  /\ step.returned.success

\* an argument as a file operation's target: unchanged when absolute, put
\* behind the working directory when relative
targetOf(argument, cwd) == IF isAbsolute(argument) THEN argument ELSE cwd \o "/" \o argument

\* C23: a successful command whose first token is 'rm' and that has a path
\* argument is recorded with one delete operation on that path.
C23_RmRecordedAsDelete ==
  (successfulRun
   /\ firstToken(step.command) = "rm"
   /\ Len(splitSpaces(trim(step.command))) > 1)
  => lastEntry.fileOperations
       = <<FileOperation("delete",
                         targetOf(splitSpaces(trim(step.command))[2], currentDirectory),
                         Undefined)>>

\* the file operations of a command by its first token, without 'echo'
operationsByFirstToken(command, cwd) ==
  LET parts == splitSpaces(trim(command))
      token == toLowerCase(parts[1])
      one(type) == <<FileOperation(type, targetOf(parts[2], cwd), Undefined)>>
      two(type) == <<FileOperation(type, targetOf(parts[2], cwd), targetOf(parts[3], cwd))>>
  IN  IF token = "touch" /\ Len(parts) > 1 THEN one("create")
      ELSE IF token = "mkdir" /\ Len(parts) > 1 THEN one("mkdir")
      ELSE IF token = "cat" /\ Len(parts) > 1 /\ ~includes(command, ">") THEN one("read")
      ELSE IF token = "mv" /\ Len(parts) > 2 THEN two("move")
      ELSE IF token = "cp" /\ Len(parts) > 2 THEN two("copy")
      ELSE NoOps

C25_OperationsOnlyOnSuccess ==
  (step.op \in {"cdRecord", "childExit", "childError"} /\ step.conversationId \in Sessions)
  => /\ lastEntry.command = step.command
     /\ lastEntry.timestamp = clock
     /\ ~step.returned.success => lastEntry.fileOperations = NoOps
     /\ step.op = "cdRecord" => lastEntry.fileOperations = NoOps

C25_Witness ==
  /\ step.op = "childExit"
  /\ step.conversationId = "s1"
  /\ step.command = "cat /etc/passwd"
  /\ step.returned.exitCode = 1
  /\ lastEntry.fileOperations = NoOps
  /\ Len(commandHistory["s1"]) = 2
  /\ commandHistory["s1"][1].fileOperations = <<FileOperation("read", "/etc/passwd", Undefined)>>

\* C26: no step of an executeCommand call made without a session identifier
\* changes the history Map, and the call gets the result a call with a
\* session identifier gets: when the same command is submitted without and
\* then with an identifier, the two calls return the same rejection or spawn
\* the same process, and when the children of two such calls exit one after
\* the other with the same code, both after or both before their timeout,
\* the two calls return the same result.
C26_NoSessionNoRecord ==
  [][/\ (step'.op \in ExecuteSteps /\ step'.conversationId = Undefined)
        => commandHistory' = commandHistory
     /\ (/\ step.op = "executeCommand" /\ step'.op = "executeCommand"
         /\ step.conversationId = Undefined /\ step'.conversationId \in Sessions
         /\ step'.command = step.command
         /\ step.returned # NoResult \/ step.spawned # NoSpawn)
        => /\ step'.returned = step.returned
           /\ step'.spawned = step.spawned
     /\ (/\ step.op = "childExit" /\ step'.op = "childExit"
         /\ step.conversationId = Undefined /\ step'.conversationId \in Sessions
         /\ step'.command = step.command
         /\ step'.returned.exitCode = step.returned.exitCode
         /\ \A j \in Slots :
               (calls[j].pc = "running" /\ calls'[j].pc = "idle")
               => (calls[j].timedOut <=> step.returned.error = "Command execution timeout"))
        => step'.returned = step.returned]_vars

C26_Witness ==
  /\ step.op = "childExit"
  /\ step.conversationId = Undefined
  /\ step.command = "cat /etc/passwd"
  /\ step.returned.success
  /\ callsMade = 2
  /\ DOMAIN commandHistory = {}

\* C27: the entries of a session stand in the order in which the calls
\* completed: the entry of the call that completes is put behind all the
\* entries of the session, whenever the call was issued, so the entries are
\* in the order of their creation.
C27_CompletionOrder ==
  /\ \A s \in DOMAIN commandHistory :
        \A k \in 1..(Len(commandHistory[s]) - 1) :
           commandHistory[s][k].timestamp < commandHistory[s][k + 1].timestamp
  /\ (step.op \in {"cdRecord", "childExit", "childError"} /\ step.conversationId \in Sessions)
        => /\ lastEntry.command = step.command
           /\ lastEntry.exitCode = step.returned.exitCode
           /\ lastEntry.timestamp = clock

\* the call issued first, in slot 1, is still running when the call issued
\* second, in slot 2, has completed and is recorded
C27_Witness ==
  /\ callsMade = 2
  /\ step.op = "childExit"
  /\ step.command = "cat /etc/passwd"
  /\ step.conversationId = "s1"
  /\ calls[1].pc = "running"
  /\ calls[1].command = "cat /etc/passwd"
  /\ calls[1].conversationId = "s1"
  /\ calls[2].pc = "idle"
  /\ Len(commandHistory["s1"]) = 1
  /\ commandHistory["s1"][1].command = "cat /etc/passwd"

\* C21: when the call of a spawned command completes, the executedIn of its
\* result and the workingDirectory of its history entry are the directory
\* its child was spawned in, and the relative targets of its file operations
\* are resolved against that directory.
C21_ExecutedInIsSpawnDirectory ==
  [][\A i \in Slots :
       (calls[i].pc = "running" /\ calls'[i].pc = "idle")
       => /\ step'.returned.executedIn = calls[i].spawnCwd
          /\ step'.conversationId \in Sessions
               => LET h == commandHistory'[step'.conversationId]
                      entry == h[Len(h)]
                  IN  /\ entry.workingDirectory = calls[i].spawnCwd
                      /\ step'.returned.success
                           => entry.fileOperations
                                = detectFileOperations(calls[i].command, calls[i].spawnCwd)]_vars

\* C29: a step of an executeCommand call made under conversation A leaves
\* the directory that getCurrentDirectory reports for every other
\* conversation B as it was.
C29_CursorPerConversation ==
  [][step'.op \in ExecuteSteps
     => \A B \in Sessions :
           B # step'.conversationId
           => getCurrentDirectory(B)' = getCurrentDirectory(B)]_vars

\* a command was spawned in a directory other than the cursor at the moment
\* it was issued (the step that spawns leaves the cursor as it was)
spawnedElsewhere ==
  /\ step.op = "executeCommand"
  /\ step.spawned # NoSpawn
  /\ step.spawned.cwd # currentDirectory

\* C30 as stated: the state in which a command issued while the cursor was
\* D is spawned in a directory other than D is reached.
C30_SpawnedElsewhereReached == <>spawnedElsewhere

\* C30 amended: a command is always spawned in the cursor's directory at the
\* moment it is issued; what can be reached is the state in which the cd of
\* another call has moved the cursor away from the directory a child is
\* running in.
C30_SpawnedInCursorAtIssue ==
  (step.op = "executeCommand" /\ step.spawned # NoSpawn)
  => /\ step.spawned.cwd = currentDirectory
     /\ \E i \in Slots :
           /\ calls[i].pc = "running"
           /\ calls[i].command = trim(step.command)
           /\ calls[i].spawnCwd = currentDirectory

C30_Witness ==
  /\ step.op = "cdRecord"
  /\ step.command = "cd sub"
  /\ step.conversationId = "s2"
  /\ step.returned.success
  /\ \E i \in Slots :
        /\ calls[i].pc = "running"
        /\ calls[i].conversationId = "s1"
        /\ calls[i].spawnCwd = shellConfig.allowedDirectory
        /\ calls[i].spawnCwd # currentDirectory

\* the entries stored for a session, none when the Map has no such key
storedEntries(s) == IF s \in DOMAIN commandHistory THEN commandHistory[s] ELSE <<>>

\* the last n entries of a sequence that has at least n
mostRecent(entries, n) == [k \in 1..n |-> entries[Len(entries) - n + k]]

\* C28 as stated: getCommandHistory(s, limit) returns the most recent
\* min(limit, length) entries of s in their order, all the entries when no
\* limit is given and the empty sequence for a session without entries, and
\* it leaves the stored history as it was.
C28_MostRecentEntries ==
  [][step'.op = "getCommandHistory"
     => LET stored == storedEntries(step'.conversationId)
            n == IF step'.limit < Len(stored) THEN step'.limit ELSE Len(stored)
        IN  /\ step'.limit = NoLimit => step'.entries = stored
            /\ step'.limit # NoLimit => step'.entries = mostRecent(stored, n)
            /\ commandHistory' = commandHistory]_vars

\* C28 amended: as stated for a limit of 1 or more; with the limit 0, as
\* with no limit, all the entries are returned.
C28_MostRecentEntriesPositiveLimit ==
  [][step'.op = "getCommandHistory"
     => LET stored == storedEntries(step'.conversationId)
            n == IF step'.limit < Len(stored) THEN step'.limit ELSE Len(stored)
        IN  /\ step'.limit \in {NoLimit, 0} => step'.entries = stored
            /\ step'.limit >= 1 => step'.entries = mostRecent(stored, n)
            /\ step'.conversationId \notin DOMAIN commandHistory => step'.entries = <<>>
            /\ commandHistory' = commandHistory]_vars

C28_Witness ==
  /\ step.op = "getCommandHistory"
  /\ step.conversationId = "s1"
  /\ step.limit = 1
  /\ Len(storedEntries("s1")) = 2
  /\ step.entries = <<commandHistory["s1"][2]>>
  /\ commandHistory["s1"][1].command = "cd sub"
  /\ commandHistory["s1"][2].command = "cat /etc/passwd"

\* C31: the cursor is changed only by a successful cd.  A step that leaves
\* the cursor other than it was is the step of an executeCommand call that
\* handles a cd command with success and puts the cursor on the validated
\* path; so the rejected, forbidden and spawned commands, the cd that fails,
\* the completion of every call and the four accessors leave it as it was.
C31_CursorOnlyBySuccessfulCd ==
  [][/\ currentDirectory' # currentDirectory
        => /\ step'.op = "executeCommand"
           /\ isCdShape(trim(step'.command))
           /\ step'.spawned = NoSpawn
           /\ \E i \in Slots :
                 /\ calls[i].pc = "idle"
                 /\ calls'[i].pc = "cdAwait"
                 /\ calls'[i].result.success
                 /\ calls'[i].result.executedIn = currentDirectory'
     /\ step'.op \in {"getCommandHistory", "clearCommandHistory", "getCurrentDirectory",
                      "getAllowedDirectory", "cdRecord", "childExit", "childError",
                      "timeout", "graceTimeout"}
        => currentDirectory' = currentDirectory
     /\ (step'.op = "executeCommand" /\ (step'.returned # NoResult \/ step'.spawned # NoSpawn))
        => currentDirectory' = currentDirectory
     /\ \A i \in Slots :
           (calls[i].pc = "idle" /\ calls'[i].pc = "cdAwait" /\ ~calls'[i].result.success)
           => currentDirectory' = currentDirectory]_vars

\* the cursor stands below the allowed directory after a cd that failed, a
\* command that was spawned from there and a cleared history
C31_Witness ==
  /\ step.op = "getCurrentDirectory"
  /\ step.out = pathJoin(shellConfig.allowedDirectory, "sub")
  /\ currentDirectory = pathJoin(shellConfig.allowedDirectory, "sub")
  /\ callsMade = 2
  /\ \E i \in Slots : calls[i].pc = "running" /\ calls[i].timedOut

\* C32: for every candidate whose normalized resolution against the cursor
\* is the allowed root or lies below it by whole path segments, validatePath
\* returns that normalized absolute path and never null: a relative
\* candidate is put behind the cursor, an absolute one is taken as it is,
\* and the '.' and '..' segments are collapsed.
C32_InsideAccepted ==
  step.op = "validatePath"
  => LET joined == IF isAbsolute(step.commandPath) THEN step.commandPath
                   ELSE step.currentDir \o "/" \o step.commandPath
         expected == pathOf(collapse(segments(joined), <<>>))
     IN  isWithin(expected, step.allowedDir)
         => /\ step.out # Null
            /\ step.out = expected
            /\ isAbsolute(step.out)
            /\ \A k \in 1..Len(segments(step.out)) : segments(step.out)[k] \notin {".", ".."}

C32_Witness ==
  /\ step.op = "validatePath"
  /\ step.commandPath = "sub/../.."
  /\ step.allowedDir = "/sandbox"
  /\ step.currentDir = "/sandbox/sub/deep"
  /\ step.out = "/sandbox/sub"

\* the text holds one of the given strings
holdsOneOf(text, patterns) ==
  \E p \in patterns : \E k \in 1..Len(text) :
     k + Len(p) - 1 <= Len(text) /\ SubSeq(text, k, k + Len(p) - 1) = p

\* a traversal pattern, or one of the injection patterns '$(', '&&', '||',
\* a pipe followed by sudo, a semicolon followed by sudo
holdsRejectedPattern(text) ==
  holdsOneOf(text, { "../", "..\\", "/..", "\\..", "$(", "&&", "||",
                     "|sudo", "| sudo", ";sudo", "; sudo" })

\* C33: isSafeCommand is false for every command that holds, anywhere, a
\* traversal pattern or one of '$(', '&&', '||', a pipe followed by sudo, a
\* semicolon followed by sudo; the enabled plugin returns the failure
\* 'Security policy violation' for it, spawns nothing, suspends no call and leaves
\* the cursor and the history as they were.
C33_PatternsNeverRun ==
  [][(step'.op = "executeCommand" /\ holdsRejectedPattern(step'.command))
     => /\ ~isSafeCommand(step'.command)
        /\ step'.spawned = NoSpawn
        /\ step'.returned # NoResult
        /\ ~step'.returned.success
        /\ step'.returned.error = "Security policy violation"
        /\ currentDirectory' = currentDirectory
        /\ calls' = calls
        /\ commandHistory' = commandHistory]_vars

\* a cd chained to a second command is rejected with the cursor below the
\* allowed directory, where an earlier cd put it
C33_Witness ==
  /\ step.op = "executeCommand"
  /\ step.command = "cd sub && ls"
  /\ step.returned # NoResult
  /\ step.returned.error = "Security policy violation"
  /\ currentDirectory = pathJoin(shellConfig.allowedDirectory, "sub")
  /\ \A i \in Slots : calls[i].pc = "idle"

\* the text holds a backtick that stands outside the single-quoted spans
\* (an even number of single quotes before it) and a backtick after it
substitutionOutsideQuotes(text) ==
  \E i \in 1..Len(text) : \E j \in (i + 1)..Len(text) :
     /\ charAt(text, i) = Backtick
     /\ charAt(text, j) = Backtick
     /\ Cardinality({k \in 1..(i - 1) : charAt(text, k) = SingleQuote}) % 2 = 0

\* C34: a command that holds a backtick substitution outside the
\* single-quoted spans is rejected by the safety classifier, also when the
\* body of the substitution holds a single-quoted word: executeCommand
\* returns the failure 'Security policy violation' and spawns nothing.
C34_BacktickSubstitutionRejected ==
  (step.op = "executeCommand" /\ substitutionOutsideQuotes(trim(step.command)))
  => /\ ~checks[step.command].safe
     /\ step.spawned = NoSpawn
     /\ step.returned # NoResult
     /\ step.returned.error = "Security policy violation"

\* the text after the last '>' of a command, without the white space
\* around it
afterLastRedirect(text) ==
  LET at == {k \in 1..Len(text) : charAt(text, k) = ">"}
      last == CHOOSE k \in at : \A h \in at : h <= k
  IN  trim(SubSeq(text, last + 1, Len(text)))

\* C35: the entry of a successful command whose first token is 'echo' and
\* whose text holds '>' carries one write operation, and its target is the
\* text after the last '>' of the command, resolved against the working
\* directory, wherever the '>' characters and the white space stand.
C35_EchoWritesAfterLastRedirect ==
  (successfulRun
   /\ toLowerCase(firstToken(step.command)) = "echo"
   /\ includes(step.command, ">"))
  => lastEntry.fileOperations
       = <<FileOperation("write",
                         targetOf(afterLastRedirect(trim(step.command)), currentDirectory),
                         Undefined)>>

\* the number of entries stored for all the sessions
RECURSIVE entriesIn(_, _)
entriesIn(history, keys) ==
  IF keys = {} THEN 0
  ELSE LET k == CHOOSE x \in keys : TRUE
       IN  Len(history[k]) + entriesIn(history, keys \ {k})

\* the slots whose call returns in the step
returning == {i \in Slots : calls[i].pc # "idle" /\ calls'[i].pc = "idle"}

\* C36: no executeCommand call appends more than one entry.  A step adds at
\* most one entry; the step that adds one is the step in which exactly one
\* call returns, and the entry is that call's; a call that returns has left
\* its slot, so it adds nothing afterwards: the exit event that follows the
\* error event of its child adds nothing, and neither does a step that
\* issues a call, a timer or a rejection.
C36_AtMostOneEntryPerCall ==
  [][/\ entriesIn(commandHistory', DOMAIN commandHistory')
          <= entriesIn(commandHistory, DOMAIN commandHistory) + 1
     /\ clock' <= clock + 1
     /\ commandHistory' # commandHistory
        => /\ Cardinality(returning) = 1
           /\ \A i \in returning :
                 /\ calls[i].conversationId \in DOMAIN commandHistory'
                 /\ LET h == commandHistory'[calls[i].conversationId] IN
                    /\ h[Len(h)].command = calls[i].command
                    /\ h[Len(h)].timestamp = clock'
                    /\ SubSeq(h, 1, Len(h) - 1)
                         = IF calls[i].conversationId \in DOMAIN commandHistory
                           THEN commandHistory[calls[i].conversationId] ELSE <<>>
     /\ step'.op \in {"executeCommand", "timeout", "graceTimeout", "childExitSettled"}
        => commandHistory' = commandHistory /\ clock' = clock]_vars

\* the error event and then the exit event of one child have fired, and the
\* call is recorded once
C36_Witness ==
  /\ step.op = "childExitSettled"
  /\ step.command = "cat /etc/passwd"
  /\ step.conversationId = "s1"
  /\ callsMade = 1
  /\ clock = 1
  /\ Len(commandHistory["s1"]) = 1
  /\ commandHistory["s1"][1].stderr = "spawn cat ENOENT"
  /\ \A i \in Slots : calls[i].pc = "idle"

RECURSIVE simpleCommandsFrom(_, _, _, _)
simpleCommandsFrom(text, i, cur, acc) ==
  IF i > Len(text) THEN Append(acc, cur)
  ELSE IF charAt(text, i) \in {"|", ";", "&"}
       THEN simpleCommandsFrom(text, i + 1, "", Append(acc, cur))
       ELSE simpleCommandsFrom(text, i + 1, cur \o charAt(text, i), acc)

\* the simple commands of a string given to the shell: the pieces between
\* its '|', ';' and '&' characters
simpleCommands(text) == simpleCommandsFrom(text, 1, "", <<>>)

\* the lower-cased bare entries of a deny list
bareEntries(forbiddenCommands) ==
  { toLowerCase(forbiddenCommands[k]) :
      k \in {j \in 1..Len(forbiddenCommands) : isBareEntry(forbiddenCommands[j])} }

\* C37: when executeCommand hands a command string to the shell
\* interpreter, no simple command of that string, the first one or one
\* behind a '|', a ';' or a '&', has a bare entry of the deny list as its
\* first word.
C37_NoForbiddenSimpleCommand ==
  (step.op = "executeCommand" /\ step.spawned # NoSpawn /\ step.spawned.cmd = "sh")
  => LET parts == simpleCommands(step.spawned.args[2]) IN
     \A k \in 1..Len(parts) :
        toLowerCase(firstToken(parts[k])) \notin bareEntries(shellConfig.forbiddenCommands)

\* C38: a command string of white space only is rejected like the empty
\* string: executeCommand returns the failure 'Command must be a non-empty
\* string' and gives nothing to the process spawner, so no spawn with an
\* empty program name is made, and no session has an entry for it.
C38_WhitespaceRejectedAsInvalid ==
  (step.op = "executeCommand" /\ step.command # "" /\ trim(step.command) = "")
  => /\ step.spawned = NoSpawn
     /\ step.returned = CommandResult(FALSE, "", "Invalid command", 1,
                                      "Command must be a non-empty string", currentDirectory)
     /\ \A s \in DOMAIN commandHistory :
           \A k \in 1..Len(commandHistory[s]) : commandHistory[s][k].command # ""

====
